---- MODULE Spec2Model ----
(***************************************************************************)
(* Model of pypose/optim/optimizer.py: the GaussNewton and                 *)
(* LevenbergMarquardt optimizers.                                          *)
(*                                                                         *)
(* Tensor entries are exact rationals <<n, d>> (d > 0, lowest terms);      *)
(* floating point rounding is not modelled.  A tensor is the sequence of   *)
(* its entries in flatten order, so a shape is an element count.           *)
(*                                                                         *)
(* The differentiable model is the collaborator f(theta, x) = x * theta:   *)
(* every parameter tensor is scaled by the scalar input x.  A model with   *)
(* one parameter returns that tensor, a model with several returns the     *)
(* tuple of them, in parameter order.  Its Jacobian has one non-zero entry *)
(* per row, so J^T J is diagonal and the three solvers are exact.          *)
(***************************************************************************)
EXTENDS Integers, Sequences, FiniteSets, TLC

VARIABLES
    params,        \* model.parameters(): <<[data, requires_grad], ...>>
    inputs,        \* the caller's model inputs, passed to every step call
    kind,          \* "none" | "GN" | "LM" | "failed": the optimizer object
    kernel,        \* self.kernel
    fast,          \* self.fast (read by GaussNewton.step only)
    param_groups,  \* self.param_groups
    err,           \* outcome of the last call: "none", "ok" or the error class
    loss,          \* value returned by the last successful step
    call,          \* record of the last step call (arguments and intermediates)
    nsteps         \* number of step calls made

vars == <<params, inputs, kind, kernel, fast, param_groups, err, loss, call, nsteps>>

----------------------------------------------------------------------------
(* Bounds of the model *)

MaxElems == 5    \* total number of parameter entries of the model
MaxSteps == 2    \* number of step calls
MaxLate == 1     \* parameters the model gains after the optimizer was built

----------------------------------------------------------------------------
(* Exact rational arithmetic for tensor entries *)

RECURSIVE GCD(_, _)
GCD(a, b) == IF b = 0 THEN a ELSE GCD(b, a % b)

Abs(n) == IF n < 0 THEN -n ELSE n

\* n/d divided through by g, with the sign carried by the numerator
Reduce(n, d, g) ==
    IF d < 0 THEN <<(-n) \div g, (-d) \div g>> ELSE <<n \div g, d \div g>>

Rat(n, d) == Reduce(n, d, GCD(Abs(n), Abs(d)))

R(n) == <<n, 1>>
Zero == R(0)
One == R(1)

\* a + b over the least common denominator; g is the gcd of the denominators
RAddOver(a, b, g) ==
    Rat(a[1] * (b[2] \div g) + b[1] * (a[2] \div g), (a[2] \div g) * b[2])
RAdd(a, b) == RAddOver(a, b, GCD(a[2], b[2]))
RNeg(a) == <<-a[1], a[2]>>
RSub(a, b) == RAdd(a, RNeg(b))
\* a * b with the cross factors g = gcd(a[1], b[2]), h = gcd(b[1], a[2])
\* taken out first
RMulOver(a, b, g, h) ==
    Rat((a[1] \div g) * (b[1] \div h), (a[2] \div h) * (b[2] \div g))
RMul(a, b) == RMulOver(a, b, GCD(Abs(a[1]), b[2]), GCD(Abs(b[1]), a[2]))
RInv(a) == IF a[1] < 0 THEN <<-a[2], -a[1]>> ELSE <<a[2], a[1]>>
RDiv(a, b) == RMul(a, RInv(b))
RLt(a, b) == a[1] * b[2] < b[1] * a[2]
RLe(a, b) == a[1] * b[2] <= b[1] * a[2]
RMax(a, b) == IF RLt(a, b) THEN b ELSE a
RMin(a, b) == IF RLt(b, a) THEN b ELSE a

RECURSIVE RSum(_)
RSum(s) == IF s = <<>> THEN Zero ELSE RAdd(Head(s), RSum(Tail(s)))

RECURSIVE Sum(_)
Sum(s) == IF s = <<>> THEN 0 ELSE Head(s) + Sum(Tail(s))

RECURSIVE Cat(_)
Cat(ts) == IF ts = <<>> THEN <<>> ELSE Head(ts) \o Cat(Tail(ts))

Min2(a, b) == IF a < b THEN a ELSE b

None == "None"

\* targets=None, and a given tensor or tuple of tensors
NoTargets == [given |-> FALSE, ts |-> <<>>]
Given(ts) == [given |-> TRUE, ts |-> ts]

\* no value returned (the call raised, or no step was made yet)
NoLoss == <<>>

----------------------------------------------------------------------------
(* The model collaborator and the tensor operations the optimizer uses *)

numel(p) == Len(p.data)

\* model(inputs): x * theta_p for every parameter p, in parameter order.
forward(P, x) ==
    [p \in 1..Len(P) |-> [k \in 1..numel(P[p]) |-> RMul(R(x), P[p].data[k])]]

\* isinstance(outputs, tuple)
IsTuple(P) == Len(P) > 1

\* t - o with broadcasting of a one-entry operand; other size mismatches raise.
TensorSub(t, o) ==
    IF Len(t) = Len(o)
    THEN [err |-> "ok", v |-> [k \in 1..Len(o) |-> RSub(t[k], o[k])]]
    ELSE IF Len(t) = 1
    THEN [err |-> "ok", v |-> [k \in 1..Len(o) |-> RSub(t[1], o[k])]]
    ELSE IF Len(o) = 1
    THEN [err |-> "ok", v |-> [k \in 1..Len(t) |-> RSub(t[k], o[1])]]
    ELSE [err |-> "RuntimeError", v |-> <<>>]

\* zip(a, b) stops at the shorter of the two.
ZipLen(a, b) == Min2(Len(a), Len(b))

\* torch.cat of the differences of the zipped pairs; a difference that
\* cannot be formed, or an empty list, raises.
cat_differences(d) ==
    IF Len(d) = 0 \/ \E i \in 1..Len(d) : d[i].err # "ok"
    THEN [err |-> "RuntimeError", E |-> <<>>]
    ELSE [err |-> "ok", E |-> Cat([i \in 1..Len(d) |-> d[i].v])]

\* (targets - outputs).view(-1, 1)
column(d) == [err |-> d.err, E |-> d.v]

\* -o for every output o
negated(outputs) ==
    [p \in 1..Len(outputs) |->
        [k \in 1..Len(outputs[p]) |-> RNeg(outputs[p][k])]]

\* The residual of the outputs against the targets, with the sign flipped:
\* output - target.
residual_of_flipped(outputs, tg, tuple) ==
    IF tg.given
    THEN IF tuple
         THEN cat_differences([i \in 1..ZipLen(tg.ts, outputs) |->
                                 TensorSub(outputs[i], tg.ts[i])])
         ELSE column(TensorSub(outputs[1], tg.ts[1]))
    ELSE [err |-> "ok", E |-> Cat(outputs)]

\* The body of _residual after outputs = self.model(inputs).  tg.ts is the
\* sequence of target tensors (one tensor when the model returns a tensor).
residual_of(outputs, tg, tuple) ==
    IF tg.given
    THEN IF tuple
         THEN cat_differences([i \in 1..ZipLen(tg.ts, outputs) |->
                                 TensorSub(tg.ts[i], outputs[i])])
         ELSE column(TensorSub(tg.ts[1], outputs[1]))
    ELSE [err |-> "ok", E |-> Cat(negated(outputs))]

\* GaussNewton._residual: the flattened error column, or the error raised.
_residual(P, x, tg) == residual_of(forward(P, x), tg, IsTuple(P))

\* self.kernel, elementwise: the identity (the default), or a robust kernel
\* that halves the slope above KernelKnee: x for x <= knee, and
\* knee + (x - knee) / 2 above it.
Kernels == {"id", "soft"}
KernelKnee == R(4)
kernel_apply(kern, v) ==
    IF kern = "id" \/ RLe(v, KernelKnee) THEN v
    ELSE RAdd(KernelKnee, RDiv(RSub(v, KernelKnee), R(2)))

\* jacobian(lambda x: kernel(x).sum(), E**2): the derivative of the kernel at
\* every squared residual.
kernel_jacobian(kern, E) ==
    [i \in 1..Len(E) |->
        IF kern = "id" \/ RLe(RMul(E[i], E[i]), KernelKnee)
        THEN One ELSE Rat(1, 2)]

\* self.kernel(E**2).sum()
kernel_loss(kern, E) ==
    RSum([i \in 1..Len(E) |-> kernel_apply(kern, RMul(E[i], E[i]))])

\* Flatten order of the entries of the parameters (all of them, or the
\* trainable ones only), as <<parameter, entry>> pairs.
RECURSIVE Entries(_, _, _)
Entries(P, p, trainableOnly) ==
    IF p > Len(P) THEN <<>>
    ELSE (IF trainableOnly => P[p].requires_grad
          THEN [k \in 1..numel(P[p]) |-> <<p, k>>] ELSE <<>>)
         \o Entries(P, p + 1, trainableOnly)

\* modjac(model, inputs, flatten=True): rows are the output entries, columns
\* the entries of the model's trainable parameters, both in parameter order;
\* d(x * theta)/d(theta) is x on the matching entry and 0 elsewhere.
jacobian_of(rows, cols, x) ==
    [i \in 1..Len(rows) |->
        [j \in 1..Len(cols) |-> IF rows[i] = cols[j] THEN x ELSE 0]]

modjac(P, x) == jacobian_of(Entries(P, 1, FALSE), Entries(P, 1, TRUE), x)

NCols(P) == Len(Entries(P, 1, TRUE))

\* J.T @ J
JTJ(J, N) ==
    [j \in 1..N |-> [k \in 1..N |->
        R(Sum([i \in 1..Len(J) |-> J[i][j] * J[i][k]]))]]

\* The weighted gradient with the product by E left out: the row sums of
\* K.T * J.T.
WeightedGradient_noE(J, N, K, E) ==
    IF Len(E) # Len(J)
    THEN [err |-> "RuntimeError", b |-> <<>>]
    ELSE [err |-> "ok",
          b |-> [j \in 1..N |->
                  RSum([i \in 1..Len(J) |-> RMul(K[i], R(J[i][j]))])]]

\* K.T * J.T @ E: entry j is the sum over the rows of K_i * J_ij * E_i.  The
\* product is defined only when E has one row per row of J.
WeightedGradient(J, N, K, E) ==
    IF Len(E) # Len(J)
    THEN [err |-> "RuntimeError", b |-> <<>>]
    ELSE [err |-> "ok",
          b |-> [j \in 1..N |->
                  RSum([i \in 1..Len(J) |->
                         IF J[i][j] = 0 THEN Zero
                         ELSE RMul(RMul(K[i], R(J[i][j])), E[i])])]]

IsDiagonal(A) ==
    \A j \in 1..Len(A) : \A k \in 1..Len(A) : j # k => A[j][k] = Zero

\* A.pinverse() @ b for a diagonal A: the reciprocal of every non-zero
\* diagonal entry, zero for the others (the minimum-norm solution).
pinverse_solve(A, b) ==
    CASE IsDiagonal(A) ->
        [j \in 1..Len(A) |->
            IF A[j][j] = Zero THEN Zero ELSE RDiv(b[j], A[j][j])]

\* lstsq(A, b, rcond=None, driver=None).solution for a diagonal A: entries
\* of rank-deficient directions are zero (gelsy returns the minimum-norm
\* solution).
lstsq_solve(A, b, rcond, driver) ==
    CASE IsDiagonal(A) ->
        [j \in 1..Len(A) |->
            IF A[j][j] # Zero THEN RDiv(b[j], A[j][j]) ELSE Zero]

\* torch.linalg.cholesky(A) exists iff A is positive definite.
cholesky_ok(A) ==
    CASE IsDiagonal(A) -> \A j \in 1..Len(A) : RLt(Zero, A[j][j])

\* b.cholesky_solve(cholesky(A)) for a diagonal positive definite A.
cholesky_solve(A, b) == [j \in 1..Len(A) |-> RDiv(b[j], A[j][j])]

\* Tensor.clamp(min, max): min(max(d, min), max); max wins when min > max.
clamp(d, lo, hi) == RMin(RMax(d, lo), hi)

\* pg['damping'] * A.diagonal().clamp(pg['min'], pg['max'])
damping_term(A, pg) ==
    [j \in 1..Len(A) |-> RMul(pg.damping, clamp(A[j][j], pg.min, pg.max))]

\* A.diagonal().add_(...)
add_diagonal(A, t) ==
    [j \in 1..Len(A) |-> [A[j] EXCEPT ![j] = RAdd(A[j][j], t[j])]]
damped(A, pg) == add_diagonal(A, damping_term(A, pg))

\* numels = [p.numel() for p in pg['params'] if p.requires_grad]
RECURSIVE numels_of(_, _, _)
numels_of(P, ids, i) ==
    IF i > Len(ids) THEN <<>>
    ELSE (IF P[ids[i]].requires_grad THEN <<numel(P[ids[i]])>> ELSE <<>>)
         \o numels_of(P, ids, i + 1)

\* torch.split(D, numels): consecutive slices of the given sizes, which must
\* add up to the length of D.
RECURSIVE slices(_, _)
slices(D, sizes) ==
    IF sizes = <<>> THEN <<>>
    ELSE <<SubSeq(D, 1, Head(sizes))>>
         \o slices(SubSeq(D, Head(sizes) + 1, Len(D)), Tail(sizes))

split(D, sizes) ==
    IF Sum(sizes) # Len(D)
    THEN [err |-> "RuntimeError", D |-> <<>>]
    ELSE [err |-> "ok", D |-> slices(D, sizes)]

\* p.add_(d.view(p.shape)): view raises when the element counts differ.
add_(p, d) == [p EXCEPT !.data = [k \in 1..numel(p) |-> RAdd(p.data[k], d[k])]]

\* The additions without the requires_grad filter.
RECURSIVE apply_updates_unfiltered(_, _, _, _)
apply_updates_unfiltered(P, ids, D, i) ==
    IF i > ZipLen(ids, D) THEN [err |-> "ok", params |-> P]
    ELSE IF Len(D[i]) # numel(P[ids[i]])
    THEN [err |-> "RuntimeError", params |-> P]
    ELSE apply_updates_unfiltered([P EXCEPT ![ids[i]] = add_(P[ids[i]], D[i])],
                                  ids, D, i + 1)

\* [p.add_(d.view(p.shape)) for p, d in zip(pg['params'], D) if p.requires_grad]
\* The pairs are taken position by position from all the parameters of the
\* group; the filter drops a pair whose parameter is frozen.  The additions
\* made before a failing view stay.
RECURSIVE apply_updates(_, _, _, _)
apply_updates(P, ids, D, i) ==
    IF i > ZipLen(ids, D) THEN [err |-> "ok", params |-> P]
    ELSE IF ~P[ids[i]].requires_grad THEN apply_updates(P, ids, D, i + 1)
    ELSE IF Len(D[i]) # numel(P[ids[i]])
    THEN [err |-> "RuntimeError", params |-> P]
    ELSE apply_updates([P EXCEPT ![ids[i]] = add_(P[ids[i]], D[i])],
                       ids, D, i + 1)

----------------------------------------------------------------------------
(* One step call *)

\* GN: lstsq(J.T @ J, K.T * J.T @ E).solution when fast, else
\* (J.T @ J).pinverse() @ (K.T * J.T @ E).  g is the weighted gradient.
solve_GN(A, g, pg, fst) ==
    IF g.err # "ok"
    THEN [err |-> g.err, D |-> <<>>, damp |-> <<>>]
    ELSE [err |-> "ok", damp |-> <<>>,
          D |-> IF fst THEN lstsq_solve(A, g.b, pg.rcond, pg.driver)
                ELSE pinverse_solve(A, g.b)]

\* LM: (K.T * J.T @ E).cholesky_solve(torch.linalg.cholesky(A)) on the damped
\* A; t is the term that was added to the diagonal.
solve_LM(Ad, g, t) ==
    IF g.err # "ok"
    THEN [err |-> g.err, D |-> <<>>, damp |-> t]
    ELSE IF ~cholesky_ok(Ad)
    THEN [err |-> "LinAlgError", D |-> <<>>, damp |-> t]
    ELSE [err |-> "ok", D |-> cholesky_solve(Ad, g.b), damp |-> t]

solve_from(alg, A, g, pg, fst) ==
    IF alg = "GN" THEN solve_GN(A, g, pg, fst)
    ELSE solve_LM(damped(A, pg), g, damping_term(A, pg))

solve_with(alg, J, N, pg, fst, K, E) ==
    solve_from(alg, JTJ(J, N), WeightedGradient(J, N, K, E), pg, fst)

\* The solve of one parameter group: [error, delta, LM damping term].
solve(alg, P, pg, fst, x, K, E) ==
    solve_with(alg, modjac(P, x), NCols(P), pg, fst, K, E)

\* The outcome of a group whose additions ended as ap.
added(s, ap) ==
    [err |-> ap.err, params |-> ap.params, D |-> <<s.D>>, damp |-> s.damp]

\* The additions of one group, given the slices sp of the delta s.D.
add_slices(P, pg, s, sp) ==
    IF sp.err # "ok"
    THEN [err |-> sp.err, params |-> P, D |-> <<s.D>>, damp |-> s.damp]
    ELSE added(s, apply_updates(P, pg.params, sp.D, 1))

\* The split and the additions of one group, given its solve s.
update_with(P, pg, s) ==
    IF s.err # "ok"
    THEN [err |-> s.err, params |-> P, D |-> <<>>, damp |-> s.damp]
    ELSE add_slices(P, pg, s, split(s.D, numels_of(P, pg.params, 1)))

\* One pass of the loop body: numels, J, D, split, add.
group_update(alg, P, pg, fst, x, K, E) ==
    update_with(P, pg, solve(alg, P, pg, fst, x, K, E))

\* for pg in self.param_groups: an error leaves the loop at once, with the
\* additions made so far in place.  Ds and damps collect the delta and the
\* LM damping term of every group.
RECURSIVE run_groups(_, _, _, _, _, _, _, _, _, _)
RECURSIVE next_group(_, _, _, _, _, _, _, _, _, _)
next_group(alg, groups, g, fst, x, K, E, Ds, damps, u) ==
    IF u.err # "ok"
    THEN [err |-> u.err, params |-> u.params, D |-> Ds \o u.D,
          damp |-> Append(damps, u.damp)]
    ELSE run_groups(alg, u.params, groups, g + 1, fst, x, K, E,
                    Ds \o u.D, Append(damps, u.damp))

run_groups(alg, P, groups, g, fst, x, K, E, Ds, damps) ==
    IF g > Len(groups)
    THEN [err |-> "ok", params |-> P, D |-> Ds, damp |-> damps]
    ELSE next_group(alg, groups, g, fst, x, K, E, Ds, damps,
                    group_update(alg, P, groups[g], fst, x, K, E))

\* The loss of the residual the call started with.
returned_loss_stale(kern, P0, P1, x, targets) ==
    kernel_loss(kern, _residual(P0, x, targets).E)

\* return self.kernel(self._residual(inputs, targets)**2).sum(): the residual
\* is evaluated again, on the parameters as the loop left them (P1); P0 are
\* the parameters the call started with.
returned_loss(kern, P0, P1, x, targets) ==
    kernel_loss(kern, _residual(P1, x, targets).E)

\* The outcome of a textbook adaptive step: the damping of every group that
\* has one is doubled when the step made the loss go up.
step_result_adaptive(P, groups, kern, x, targets, r, u) ==
    [err |-> u.err, params |-> u.params,
     param_groups |->
         IF u.err = "ok" /\ RLt(kernel_loss(kern, r.E),
                                returned_loss(kern, P, u.params, x, targets))
         THEN [g \in 1..Len(groups) |->
                  IF "damping" \in DOMAIN groups[g]
                  THEN [groups[g] EXCEPT !.damping = RMul(R(2), @)]
                  ELSE groups[g]]
         ELSE groups,
     loss |-> IF u.err = "ok"
              THEN returned_loss(kern, P, u.params, x, targets)
              ELSE NoLoss,
     E |-> r.E, D |-> u.D, damp |-> u.damp]

\* What the call leaves and returns, given the first residual r and the
\* outcome u of the loop.
step_result(P, groups, kern, x, targets, r, u) ==
    [err |-> u.err, params |-> u.params, param_groups |-> groups,
     loss |-> IF u.err = "ok"
              THEN returned_loss(kern, P, u.params, x, targets)
              ELSE NoLoss,
     E |-> r.E, D |-> u.D, damp |-> u.damp]

step_from(alg, P, groups, kern, fst, x, targets, r) ==
    IF r.err # "ok"
    THEN [err |-> r.err, params |-> P, param_groups |-> groups,
          loss |-> NoLoss, E |-> <<>>, D |-> <<>>, damp |-> <<>>]
    ELSE step_result(P, groups, kern, x, targets, r,
                     run_groups(alg, P, groups, 1, fst, x,
                                kernel_jacobian(kern, r.E), r.E, <<>>, <<>>))

\* The body shared by GaussNewton.step and LevenbergMarquardt.step: the
\* state the call leaves and the value it returns.
step_body(alg, P, groups, kern, fst, x, targets) ==
    step_from(alg, P, groups, kern, fst, x, targets, _residual(P, x, targets))

GaussNewton_step(P, groups, kern, fst, x, targets) ==
    step_body("GN", P, groups, kern, fst, x, targets)

LevenbergMarquardt_step(P, groups, kern, x, targets) ==
    step_body("LM", P, groups, kern, FALSE, x, targets)

----------------------------------------------------------------------------
(* Inputs *)

\* Element counts of the parameters: sequences of positive sizes with at most
\* MaxElems entries in total.
Shapes ==
    {s \in UNION {[1..n -> 1..MaxElems] : n \in 1..MaxElems} :
        Sum(s) <= MaxElems}

\* The initial entries are 5, 6, 7, ... in flatten order: all distinct.
InitData(s, p) ==
    [k \in 1..s[p] |-> R(4 + Sum(SubSeq(s, 1, p - 1)) + k)]

\* The models: every assignment of frozen/trainable to the parameters with at
\* least one trainable parameter.
Models ==
    {m \in UNION {[1..Len(s) ->
                     {[data |-> d, requires_grad |-> b] :
                        d \in {InitData(s, p) : p \in 1..Len(s)},
                        b \in BOOLEAN}] : s \in Shapes} :
        /\ \A p \in 1..Len(m) :
              m[p].data = InitData([q \in 1..Len(m) |-> numel(m[q])], p)
        /\ \E p \in 1..Len(m) : m[p].requires_grad}

InputSet == {0, 1, 2}

\* The value of every target entry: the first initial entry, so that a call
\* can start on a residual that is already zero.
TargetValues == {5}

\* The targets a caller may pass: None, targets shaped like the outputs,
\* one-entry targets, and for a tuple of outputs a tuple one shorter or one
\* longer than the outputs.
TargetsFor(P) ==
    LET like(v) == [p \in 1..Len(P) |-> [k \in 1..numel(P[p]) |-> R(v)]]
        ones(v) == [p \in 1..Len(P) |-> <<R(v)>>]
    IN  {NoTargets}
        \cup {Given(like(v)) : v \in TargetValues}
        \cup {Given(ones(v)) : v \in TargetValues}
        \cup (IF IsTuple(P)
              THEN {Given(SubSeq(like(v), 1, Len(P) - 1)) : v \in TargetValues}
                   \cup {Given(Append(like(v), <<R(v)>>)) : v \in TargetValues}
              ELSE {})

\* (damping, min, max, kernel) given to LevenbergMarquardt
LMConfigs ==
    {<<1, 1, 2, "id">>, <<1, 1, 2, "soft">>, <<1, -4, -3, "id">>,
     <<1, 2, 1, "id">>, <<0, 1, 2, "id">>}

----------------------------------------------------------------------------
(* The state machine *)

Init ==
    /\ params \in Models
    /\ inputs \in InputSet
    /\ kind = "none"
    /\ kernel = None
    /\ fast = FALSE
    /\ param_groups = <<>>
    /\ err = "none"
    /\ loss = NoLoss
    /\ call = [op |-> "none"]
    /\ nsteps = 0

AllParams == [p \in 1..Len(params) |-> p]

\* GaussNewton.__init__(model, kernel, fast, rcond=None, driver=None)
GN_init(kern, fst) ==
    /\ kind = "none"
    /\ kind' = "GN"
    /\ kernel' = kern
    /\ fast' = fst
    /\ param_groups' = <<[params |-> AllParams, rcond |-> None, driver |-> None]>>
    /\ err' = "ok"
    /\ call' = [op |-> "GN_init"]
    /\ UNCHANGED <<params, inputs, loss, nsteps>>

\* LevenbergMarquardt.__init__(model, damping, kernel, min, max).  The check
\* of damping is an assert statement: it raises AssertionError, and python -O
\* (debug = FALSE) removes it.
LM_init(damping, kern, lo, hi, debug) ==
    /\ kind = "none"
    /\ kernel' = kern
    /\ call' = [op |-> "LM_init", damping |-> damping, min |-> lo, max |-> hi]
    /\ IF debug /\ ~(damping > 0)
       THEN /\ kind' = "failed"
            /\ err' = "AssertionError"
            /\ param_groups' = <<>>
       ELSE /\ kind' = "LM"
            /\ err' = "ok"
            /\ param_groups' = <<[params |-> AllParams, damping |-> R(damping),
                                  min |-> R(lo), max |-> R(hi)]>>
    /\ UNCHANGED <<params, inputs, fast, loss, nsteps>>

StepRecord(x, targets, out) ==
    [op |-> "step", inputs |-> x, targets |-> targets, pre |-> params,
     E |-> out.E, D |-> out.D, damp |-> out.damp]

\* GaussNewton.step(inputs, targets)
GN_step(x, targets) ==
    /\ kind = "GN"
    /\ nsteps < MaxSteps
    /\ \E out \in {GaussNewton_step(params, param_groups, kernel, fast, x, targets)} :
           /\ params' = out.params
           /\ param_groups' = out.param_groups
           /\ err' = out.err
           /\ loss' = out.loss
           /\ call' = StepRecord(x, targets, out)
    /\ nsteps' = nsteps + 1
    /\ UNCHANGED <<inputs, kind, kernel, fast>>

\* LevenbergMarquardt.step(inputs, targets)
LM_step(x, targets) ==
    /\ kind = "LM"
    /\ nsteps < MaxSteps
    /\ \E out \in {LevenbergMarquardt_step(params, param_groups, kernel, x, targets)} :
           /\ params' = out.params
           /\ param_groups' = out.param_groups
           /\ err' = out.err
           /\ loss' = out.loss
           /\ call' = StepRecord(x, targets, out)
    /\ nsteps' = nsteps + 1
    /\ UNCHANGED <<inputs, kind, kernel, fast>>

\* The parameters of the model that are in no group of the optimizer.
IsUngrouped(p) ==
    \A g \in 1..Len(param_groups) :
        \A i \in 1..Len(param_groups[g].params) : param_groups[g].params[i] # p

Ungrouped == SelectSeq(AllParams, IsUngrouped)

\* The model gains a trainable one-entry parameter after the optimizer was
\* built (torch.nn.Module.register_parameter).  The optimizer holds the
\* model itself (self.model), which step reads again on every call, while
\* its groups hold the parameters the model had at construction.  The
\* scenarios register late parameters before the first step call.
register_parameter ==
    /\ kind \in {"GN", "LM"}
    /\ nsteps = 0
    /\ Len(params) - Len(param_groups[1].params) < MaxLate
    /\ Len(Entries(params, 1, FALSE)) < MaxElems
    /\ params' = Append(params,
                        [data |-> <<R(4 + Len(Entries(params, 1, FALSE)) + 1)>>,
                         requires_grad |-> TRUE])
    /\ err' = "ok"
    /\ call' = [op |-> "register_parameter"]
    /\ UNCHANGED <<inputs, kind, kernel, fast, param_groups, loss, nsteps>>

\* Optimizer.add_param_group({'params': ids}), inherited from
\* torch.optim.Optimizer: the group takes the options it does not give from
\* self.defaults, which are the options of the constructor's group, and is
\* appended.  The caller passes parameters that are in no group yet (torch
\* raises ValueError for the others).
add_param_group(ids) ==
    /\ kind \in {"GN", "LM"}
    /\ ids # <<>>
    /\ param_groups' = Append(param_groups, [param_groups[1] EXCEPT !.params = ids])
    /\ err' = "ok"
    /\ call' = [op |-> "add_param_group", params |-> ids]
    /\ UNCHANGED <<params, inputs, kind, kernel, fast, loss, nsteps>>

Next ==
    \/ \E kern \in Kernels, fst \in BOOLEAN : GN_init(kern, fst)
    \/ \E c \in LMConfigs, debug \in BOOLEAN :
          LM_init(c[1], c[4], c[2], c[3], debug)
    \/ \E t \in TargetsFor(params) : GN_step(inputs, t)
    \/ \E t \in TargetsFor(params) : LM_step(inputs, t)
    \/ register_parameter
    \/ \E ids \in {Ungrouped} : add_param_group(ids)

Spec == Init /\ [][Next]_vars

----------------------------------------------------------------------------
(* Vocabulary of the claims *)

Stepped == call.op = "step"
Raised == err \notin {"ok", "none"}
IsZeroVec(v) == \A k \in 1..Len(v) : v[k] = Zero
Numels(P) == [p \in 1..Len(P) |-> numel(P[p])]
Changed(p) == params[p].data # call.pre[p].data

\* The slice of the group's delta that belongs to the parameter at position
\* i of the group: it starts after the entries of the trainable parameters
\* before it.
OwnSlice(P, ids, D, i) ==
    LET off == Sum(numels_of(P, SubSeq(ids, 1, i - 1), 1))
    IN  SubSeq(D, off + 1, off + numel(P[ids[i]]))

PlusSlice(data, d) == [k \in 1..Len(data) |-> RAdd(data[k], d[k])]

----------------------------------------------------------------------------
(* C1 - C5 *)

\* C1: a step call that raises has modified no parameter of the group it was
\* processing: every failure comes before the first in-place addition.
C1_FailedStepLeavesParams ==
    (Stepped /\ Raised) => params = call.pre

\* C2: after a successful step every trainable parameter of every group, at
\* any position among frozen ones, holds its old value plus its own slice of
\* the group's delta (the slice at the cumulative count of the trainable
\* entries before it).
C2_EveryTrainableGetsOwnSlice ==
    (Stepped /\ err = "ok") =>
        \A g \in 1..Len(param_groups) :
            LET ids == param_groups[g].params
            IN  \A i \in 1..Len(ids) :
                    call.pre[ids[i]].requires_grad =>
                        params[ids[i]].data =
                            PlusSlice(call.pre[ids[i]].data,
                                      OwnSlice(call.pre, ids, call.D[g], i))

\* C3: a frozen parameter holds its initial value in every reachable state,
\* whatever its position among the parameters and however the calls ended.
C3_FrozenNeverChanges ==
    \A p \in 1..Len(params) :
        ~params[p].requires_grad =>
            params[p].data = InitData(Numels(params), p)

\* C3 witness: two step calls were made, the last one succeeded and changed
\* a trainable parameter, and a frozen parameter sits before a trainable one.
C3_Witness ==
    /\ Stepped /\ nsteps = 2 /\ err = "ok"
    /\ \E p \in 1..Len(params) : params[p].requires_grad /\ Changed(p)
    /\ \E p, q \in 1..Len(params) :
          p < q /\ ~params[p].requires_grad /\ params[q].requires_grad

\* The targets of the last call disagree with the output tuple in arity or in
\* the shape of a pair.
TargetsDisagree ==
    /\ Stepped /\ call.targets.given /\ IsTuple(call.pre)
    /\ \/ Len(call.targets.ts) # Len(call.pre)
       \/ \E i \in 1..ZipLen(call.targets.ts, call.pre) :
             Len(call.targets.ts[i]) # numel(call.pre[i])

\* C4: a step whose targets tuple disagrees with the output tuple in arity or
\* shapes raises and updates no parameter.
C4_TargetMismatchRaises ==
    TargetsDisagree => (Raised /\ params = call.pre)

\* C5: constructing LevenbergMarquardt with damping <= 0 raises a ValueError
\* and registers no parameter group.
C5_BadDampingIsValueError ==
    (call.op = "LM_init" /\ call.damping <= 0) =>
        (err = "ValueError" /\ kind = "failed" /\ param_groups = <<>>)

----------------------------------------------------------------------------
(* C6 - C10 *)

\* A call on a constructed optimizer keeps the groups it has (a group may be
\* appended by the caller), the kernel and fast.
ConfigKept ==
    kind \in {"GN", "LM"} =>
        /\ Len(param_groups') >= Len(param_groups)
        /\ SubSeq(param_groups', 1, Len(param_groups)) = param_groups
        /\ kernel' = kernel
        /\ fast' = fast

\* C6: once the optimizer is constructed, no call changes a group's
\* configuration (damping, min, max; rcond, driver), the kernel or fast.
C6_ConfigNeverMutated == [][ConfigKept]_vars

\* C6 witness: a successful LevenbergMarquardt step returned a loss above
\* the loss it started from, and the group still has its damping.
C6_Witness ==
    /\ Stepped /\ kind = "LM" /\ err = "ok"
    /\ RLt(kernel_loss(kernel, call.E), loss)
    /\ param_groups[1].damping = One

\* C7: a step called on a residual that is exactly zero (GN in either mode,
\* LM with damping > 0) leaves every parameter unchanged; every delta it
\* computed is the zero vector, and when it returns, it returns the loss of
\* the residual it started from.
C7_ZeroResidualFixedPoint ==
    (/\ Stepped
     /\ call.E # <<>> /\ IsZeroVec(call.E)
     /\ kind = "LM" => RLt(Zero, param_groups[1].damping)) =>
        /\ params = call.pre
        /\ \A g \in 1..Len(call.D) : IsZeroVec(call.D[g])
        /\ err = "ok" => loss = kernel_loss(kernel, call.E)

\* C7 witness: the second of two successful steps ran on a zero residual with
\* a non-zero Jacobian and computed a delta.
C7_Witness ==
    /\ Stepped /\ nsteps = 2 /\ err = "ok" /\ inputs # 0
    /\ call.E # <<>> /\ IsZeroVec(call.E)
    /\ call.D # <<>> /\ call.D[1] # <<>>

\* The identity model with one scalar trainable parameter, the identity
\* kernel, and a target of the parameter's shape (or none, which stands for
\* the target 0).
ScalarIdentityCase ==
    /\ Stepped /\ kind = "GN" /\ kernel = "id" /\ inputs = 1
    /\ Len(call.pre) = 1 /\ numel(call.pre[1]) = 1

TargetOfCase ==
    IF call.targets.given THEN call.targets.ts[1][1] ELSE Zero

\* C8: one GaussNewton step on the scalar identity model succeeds, leaves
\* the parameter equal to the target and returns loss 0; the residual is
\* target - output and the delta is the residual itself.
C8_IdentityModelOneStep ==
    ScalarIdentityCase =>
        /\ err = "ok"
        /\ params[1].data = <<TargetOfCase>>
        /\ loss = Zero
        /\ call.E = <<RSub(TargetOfCase, call.pre[1].data[1])>>
        /\ call.D = <<call.E>>

\* C8 witness: the first step of the case, from 5 toward the target 0 and
\* toward a non-zero target.
C8_Witness ==
    /\ ScalarIdentityCase /\ nsteps = 1
    /\ call.pre[1].data = <<R(5)>>
    /\ params[1].data = <<Zero>>

\* The bounds of the group are not a valid clamp range.
BadClampBounds(pg) ==
    RLt(pg.max, pg.min) \/ RLt(pg.min, Zero) \/ RLt(pg.max, Zero)

\* C9: a LevenbergMarquardt optimizer that was constructed with min > max or
\* a negative bound adds no negative damping term to the diagonal.
C9_DampingTermNonNegative ==
    (Stepped /\ kind = "LM" /\ BadClampBounds(param_groups[1])) =>
        \A g \in 1..Len(call.damp) :
            \A j \in 1..Len(call.damp[g]) : RLe(Zero, call.damp[g][j])

\* The parameters after the additions of the call's deltas, group by group.
RECURSIVE AfterDeltas(_, _, _)
AfterDeltas(P, Ds, g) ==
    IF g > Len(Ds) THEN P
    ELSE LET pg == param_groups[g]
             sp == split(Ds[g], numels_of(P, pg.params, 1))
         IN  AfterDeltas(apply_updates(P, pg.params, sp.D, 1).params, Ds, g + 1)

\* C10: a successful step returns the kernel loss of the residual evaluated
\* on the parameters as the call left them, and these are the parameters with
\* the deltas of all groups added, whatever the loss became.
C10_ReturnsPostUpdateLoss ==
    (Stepped /\ err = "ok") =>
        /\ loss = kernel_loss(kernel, _residual(params, call.inputs, call.targets).E)
        /\ params = AfterDeltas(call.pre, call.D, 1)

\* C10 witness: a successful step changed the parameters and returned a loss
\* above the loss of the residual it started from.
C10_Witness ==
    /\ Stepped /\ err = "ok" /\ params # call.pre
    /\ RLt(kernel_loss(kernel, call.E), loss)

----------------------------------------------------------------------------
(* C11 *)

\* The entries of the trainable parameters of a group, in the group's
\* parameter order, as <<parameter, entry>> pairs.
RECURSIVE GroupEntries(_, _, _)
GroupEntries(P, ids, i) ==
    IF i > Len(ids) THEN <<>>
    ELSE (IF P[ids[i]].requires_grad
          THEN [k \in 1..numel(P[ids[i]]) |-> <<ids[i], k>>] ELSE <<>>)
         \o GroupEntries(P, ids, i + 1)

\* The groups the loop of the last step call reached.
GroupsReached == 1..Len(call.damp)

\* C11: for every group a step call processed, the columns of the Jacobian
\* it used are the entries of that group's trainable parameters, in the
\* group's order, and a delta it solved for has the length the split sizes
\* add up to; also with several groups or a group that leaves out some of
\* the model's parameters.
C11_JacobianOverGroupOnly ==
    Stepped =>
        \A g \in GroupsReached :
            /\ Entries(call.pre, 1, TRUE) =
                   GroupEntries(call.pre, param_groups[g].params, 1)
            /\ g <= Len(call.D) =>
                   Len(call.D[g]) =
                       Sum(numels_of(call.pre, param_groups[g].params, 1))

====
